---- MODULE Spec2Model ----
\* nsupdate_cloudflare: the driver loop of main.rs (execute), the batch parser
\* of parser.rs (parse_text / parse_command) and the reconciliation engine of
\* update.rs (RequestQueue::process, CFCurrentRecords, RequestData::send).
\*
\* A text is a sequence of tokens: a word (a maximal run of non-blank
\* characters), a run of blanks " ", or the line separator "\n".  An
\* Option<T> is a sequence of length 0 (None) or 1 (Some).
EXTENDS Naturals, Integers, Sequences, FiniteSets, TLC

VARIABLES
    execute_input,    \* main.rs:55   the input argument of execute, never changed
    input_text,       \* main.rs:56   Option<String>, the text still to be parsed
    batch_count,      \* main.rs:57
    total,            \* main.rs:58
    total_failed,     \* main.rs:59
    parse_result,     \* main.rs:63   NSUpdateQueue {inner, send}
    remaining,        \* main.rs:64   Option<String> returned by parse_text
    request_queue,    \* main.rs:72   RequestQueue.inner
    next_request,     \* update.rs:316 position of the iterator in request_queue
    current_records,  \* update.rs:311 CFCurrentRecords.inner, the snapshot
    total_pages,      \* update.rs:193
    page,             \* update.rs:196 loop variable of the page loop
    subtotal,         \* update.rs:314
    subtotal_failed,  \* update.rs:315
    pc,               \* position of execute: loop, parsed, first_page, next_page,
                      \* apply, done, err, panic
    error,            \* which `?` made execute return Err: none, parse, refresh, request
    calls,            \* every HTTP call issued so far, in order
    response,         \* what the last HTTP call gave: none (no call), error
                      \* (no decodable answer), false, true (its success field)
    results,          \* the `result` of update.rs:317 for each request of this batch
    fetched,          \* the `result` list of each page fetched for this batch
    tallies           \* what process returned for each batch that it finished

vars == <<execute_input, input_text, batch_count, total, total_failed, parse_result, remaining,
          request_queue, next_request, current_records, total_pages, page,
          subtotal, subtotal_failed, pc, error, calls, response, results,
          fetched, tallies>>

\* ---------------------------------------------------------------- bounds
MaxLines == 3
MaxPages == 2

\* ---------------------------------------------------------------- options
None == <<>>
Some(x) == <<x>>

\* ---------------------------------------------------------------- text
NL == "\n"
WS == " "

RECURSIVE Split(_)
\* str::split("\n"): the pieces between separators; "" gives one empty piece.
Split(text) ==
    IF \A i \in 1..Len(text) : text[i] # NL
    THEN <<text>>
    ELSE LET i == CHOOSE j \in 1..Len(text) :
                      text[j] = NL /\ \A k \in 1..(j - 1) : text[k] # NL
         IN  <<SubSeq(text, 1, i - 1)>> \o Split(SubSeq(text, i + 1, Len(text)))

RECURSIVE Join(_)
\* [&str]::join("\n")
Join(lines) ==
    IF lines = <<>> THEN <<>>
    ELSE IF Len(lines) = 1 THEN lines[1]
    ELSE lines[1] \o <<NL>> \o Join(Tail(lines))

\* ---------------------------------------------------------------- grammar
\* nsupdate.pest, Rule::line.  Blank runs are skipped between fields and a
\* comment runs to the end of the line.
IsComment(w) == w = "#"

Fields(line) ==
    LET cut == IF \E i \in 1..Len(line) : IsComment(line[i])
               THEN (CHOOSE i \in 1..Len(line) :
                        IsComment(line[i]) /\ \A k \in 1..(i - 1) : ~IsComment(line[k])) - 1
               ELSE Len(line)
    IN  SelectSeq(SubSeq(line, 1, cut), LAMBDA w : w # WS)

\* The pairs Rule::line yields for one line: nothing for a blank or comment
\* line, else one send or one update holding an add or a delete with its
\* parameters; a line of no production is an error.
ParseLine(line) ==
    LET f == Fields(line) IN
    IF f = <<>> THEN [ok |-> TRUE, rule |-> "none", parameters |-> <<>>]
    ELSE IF f = <<"send">> THEN [ok |-> TRUE, rule |-> "send", parameters |-> <<>>]
    ELSE IF f[1] = "add" /\ Len(f) \in {5, 6}
         THEN [ok |-> TRUE, rule |-> "add", parameters |-> Tail(f)]
    ELSE IF f[1] = "delete" /\ Len(f) = 3
         THEN [ok |-> TRUE, rule |-> "delete", parameters |-> Tail(f)]
    ELSE [ok |-> FALSE, rule |-> "none", parameters |-> <<>>]

\* str::parse::<usize>() on the words the model uses
NumValue == [w \in {"300", "10", "0"} |->
                CASE w = "300" -> 300 [] w = "10" -> 10 [] w = "0" -> 0]
IsNumeric(w) == w \in DOMAIN NumValue

\* ---------------------------------------------------------------- parser
Send == [cmd |-> "Send"]
Update(action) == [cmd |-> "Update", action |-> action]

NewQueue == [inner |-> <<>>, send |-> FALSE]

push(self, command) == [self EXCEPT !.inner = Append(self.inner, command)]
set_send(self) == [self EXCEPT !.send = TRUE]
has_send(self) == self.send

\* The add arm of parse_command: domain and ttl are taken with next(), the
\* other fields are read by position in what is left (rest).
parse_add(self, parameters) ==
    LET rest == SubSeq(parameters, 3, Len(parameters)) IN
    IF ~IsNumeric(parameters[2]) THEN [status |-> "err", self |-> self]
    ELSE IF Len(rest) < 2 THEN [status |-> "panic", self |-> self]
    ELSE IF Len(rest) < 4
         THEN IF Len(rest) < 3 THEN [status |-> "panic", self |-> self]
              ELSE [status |-> "ok",
                    self |-> push(self, Update([kind |-> "Add",
                                  domain |-> parameters[1],
                                  ttl |-> NumValue[parameters[2]],
                                  record_type |-> rest[2],
                                  priority |-> None,
                                  content |-> rest[3]]))]
    ELSE IF ~IsNumeric(rest[3]) THEN [status |-> "err", self |-> self]
    ELSE [status |-> "ok",
          self |-> push(self, Update([kind |-> "Add",
                        domain |-> parameters[1],
                        ttl |-> NumValue[parameters[2]],
                        record_type |-> rest[2],
                        priority |-> Some(NumValue[rest[3]]),
                        content |-> rest[4]]))]

parse_delete(self, parameters) ==
    [status |-> "ok",
     self |-> push(self, Update([kind |-> "Delete",
                   domain |-> parameters[1],
                   record_type |-> parameters[2]]))]

\* mutant: a line of no production is skipped
parse_command_lenient(self, line) ==
    LET p == ParseLine(line) IN
    IF ~p.ok THEN [status |-> "ok", self |-> self]
    ELSE CASE p.rule = "add" -> parse_add(self, p.parameters)
           [] p.rule = "delete" -> parse_delete(self, p.parameters)
           [] p.rule = "send" -> [status |-> "ok", self |-> set_send(push(self, Send))]
           [] OTHER -> [status |-> "ok", self |-> self]

parse_command(self, line) ==
    LET p == ParseLine(line) IN
    IF ~p.ok THEN [status |-> "err", self |-> self]
    ELSE CASE p.rule = "add" -> parse_add(self, p.parameters)
           [] p.rule = "delete" -> parse_delete(self, p.parameters)
           [] p.rule = "send" -> [status |-> "ok", self |-> set_send(push(self, Send))]
           [] OTHER -> [status |-> "ok", self |-> self]

RECURSIVE parse_loop_nostop(_, _, _)
\* mutant: the loop does not stop at send
parse_loop_nostop(self, lines, consumed) ==
    IF consumed < Len(lines)
    THEN LET r == parse_command(self, lines[consumed + 1]) IN
         IF r.status # "ok"
         THEN [status |-> r.status, self |-> r.self, consumed |-> consumed + 1]
         ELSE parse_loop_nostop(r.self, lines, consumed + 1)
    ELSE [status |-> "ok", self |-> self, consumed |-> consumed]

RECURSIVE parse_loop(_, _, _)
\* The while loop of parse_text; consumed = lines taken from the iterator.
parse_loop(self, lines, consumed) ==
    IF has_send(self) THEN [status |-> "ok", self |-> self, consumed |-> consumed]
    ELSE IF consumed < Len(lines)
         THEN LET r == parse_command(self, lines[consumed + 1]) IN
              IF r.status # "ok"
              THEN [status |-> r.status, self |-> r.self, consumed |-> consumed + 1]
              ELSE parse_loop(r.self, lines, consumed + 1)
    ELSE [status |-> "ok", self |-> self, consumed |-> consumed]

\* mutant: the last line taken from the iterator is handed back as remaining
parse_text_keep_last(self, input) ==
    LET lines == Split(input)
        r == parse_loop(self, lines, 0)
        rest == Join(SubSeq(lines, r.consumed, Len(lines)))
    IN  [status |-> r.status,
         self |-> r.self,
         remaining |-> IF r.status = "ok" /\ Len(rest) > 0 THEN Some(rest) ELSE None]

\* mutant: a remainder that trims to nothing is dropped
parse_text_trim(self, input) ==
    LET lines == Split(input)
        r == parse_loop(self, lines, 0)
        rest == Join(SubSeq(lines, r.consumed + 1, Len(lines)))
    IN  [status |-> r.status,
         self |-> r.self,
         remaining |-> IF r.status = "ok" /\ (\E i \in 1..Len(rest) : rest[i] \notin {NL, WS})
                       THEN Some(rest) ELSE None]

\* mutant: what is handed back as remaining is the whole text again
parse_text_rescan(self, input) ==
    LET lines == Split(input)
        r == parse_loop(self, lines, 0)
        rest == Join(lines)
    IN  [status |-> r.status,
         self |-> r.self,
         remaining |-> IF r.status = "ok" /\ Len(rest) > 0 THEN Some(rest) ELSE None]

\* mutant: every line of the text is examined before the batch is returned
parse_text_eager(self, input) ==
    LET lines == Split(input)
        r == parse_loop(self, lines, 0)
        rest == Join(SubSeq(lines, r.consumed + 1, Len(lines)))
        bad == \E i \in 1..Len(lines) : ~ParseLine(lines[i]).ok
    IN  [status |-> IF bad THEN "err" ELSE r.status,
         self |-> r.self,
         remaining |-> IF ~bad /\ r.status = "ok" /\ Len(rest) > 0 THEN Some(rest) ELSE None]

parse_text(self, input) ==
    LET lines == Split(input)
        r == parse_loop(self, lines, 0)
        rest == Join(SubSeq(lines, r.consumed + 1, Len(lines)))
    IN  [status |-> r.status,
         self |-> r.self,
         remaining |-> IF r.status = "ok" /\ Len(rest) > 0 THEN Some(rest) ELSE None]

\* ---------------------------------------------------------------- translator
\* mutant: the priority is not carried over
RequestDataAdd_from_no_priority(source) ==
    [kind |-> "Add",
     record_type |-> source.record_type,
     name |-> source.domain,
     content |-> source.content,
     ttl |-> source.ttl,
     priority |-> None,
     proxied |-> FALSE]

RequestDataAdd_from(source) ==
    [kind |-> "Add",
     record_type |-> source.record_type,
     name |-> source.domain,
     content |-> source.content,
     ttl |-> source.ttl,
     priority |-> source.priority,
     proxied |-> FALSE]

RequestDataDelete_from(source) ==
    [kind |-> "Delete",
     record_type |-> source.record_type,
     name |-> source.domain]

RECURSIVE filter_map_reversed(_)
\* mutant: the requests are collected in reverse order
filter_map_reversed(commands) ==
    IF commands = <<>> THEN <<>>
    ELSE LET command == Head(commands) IN
         filter_map_reversed(Tail(commands)) \o
         (IF command.cmd = "Update"
          THEN <<IF command.action.kind = "Add"
                 THEN RequestDataAdd_from(command.action)
                 ELSE RequestDataDelete_from(command.action)>>
          ELSE <<>>)

RECURSIVE filter_map(_)
\* the closure of From<NSUpdateQueue>: an Update gives a request, a Send nothing
filter_map(commands) ==
    IF commands = <<>> THEN <<>>
    ELSE LET command == Head(commands) IN
         (IF command.cmd = "Update"
          THEN <<IF command.action.kind = "Add"
                 THEN RequestDataAdd_from(command.action)
                 ELSE RequestDataDelete_from(command.action)>>
          ELSE <<>>) \o filter_map(Tail(commands))

RequestQueue_from(source) == filter_map(source.inner)

\* ---------------------------------------------------------------- provider
\* The provider is the environment: what it answers is not decided by the
\* program.  Records it may list (names carry no trailing dot):
ra1 == [id |-> "id1", name |-> "a", record_type |-> "A"]
ra2 == [id |-> "id2", name |-> "a", record_type |-> "A"]
rb == [id |-> "id3", name |-> "b", record_type |-> "A"]
PageSet == {<<>>, <<rb>>, <<rb, ra1, ra2>>}

\* a decoded CFListResponse
ListResponses == [success : BOOLEAN, result : PageSet, total_pages : 0..MaxPages]

\* what a POST or DELETE gives: no decodable answer, success=false, success=true
UpdateOutcomes == {"error", "rejected", "accepted"}

\* format!("{}.", name) on the names the model uses
AppendDot(name) ==
    CASE name = "a" -> "a."
      [] name = "b" -> "b."
      [] name = "a." -> "a.."
      [] OTHER -> "?."

\* an entry of calls: GET of a page, or POST / DELETE for the request at
\* position `request` of the queue
Call(op, n, request, target) ==
    [batch |-> batch_count, op |-> op, page |-> n, request |-> request,
     target |-> target]

Answer(success) == IF success THEN "true" ELSE "false"

\* ---------------------------------------------------------------- cache
\* mutant: the success field of the first page is not looked at
get_total_pages_unchecked(self) == [ok |-> TRUE, val |-> self.total_pages]

get_total_pages(self) ==
    IF ~self.success THEN [ok |-> FALSE, val |-> 0]
    ELSE [ok |-> TRUE, val |-> self.total_pages]

get_records(self) == self.result

\* mutant: the snapshot of a batch starts with a record left from elsewhere
CFCurrentRecords_new_stale == <<ra1>>

\* update.rs:179-183: CFCurrentRecords::new, a snapshot with no records
CFCurrentRecords_new == <<>>

\* mutant: a page is put in front of the records already held
append_front(inner, result) == result \o inner

\* CFCurrentRecords::append
append(inner, result) == inner \o result

\* mutant: the last matching record is taken
find_record_last(inner, name, record_type) ==
    IF inner = <<>> THEN None
    ELSE LET hit(i) == AppendDot(inner[i].name) = name
                       /\ inner[i].record_type = record_type
         IN  IF \E i \in 1..Len(inner) : hit(i)
             THEN Some(inner[CHOOSE i \in 1..Len(inner) :
                                hit(i) /\ \A k \in (i + 1)..Len(inner) : ~hit(k)])
             ELSE None

find_record(inner, name, record_type) ==
    IF inner = <<>> THEN None
    ELSE LET hit(i) == AppendDot(inner[i].name) = name
                       /\ inner[i].record_type = record_type
         IN  IF \E i \in 1..Len(inner) : hit(i)
             THEN Some(inner[CHOOSE i \in 1..Len(inner) :
                                hit(i) /\ \A k \in 1..(i - 1) : ~hit(k)])
             ELSE None

find_record_id(inner, name, record_type) ==
    LET record == find_record(inner, name, record_type) IN
    IF record # None THEN Some(record[1].id) ELSE None

\* ---------------------------------------------------------------- requests
\* Each send gives the Result it returns (status ok/err, the Option of the
\* response) and the HTTP call it issued, if any, with the name (POST) or the
\* record id (DELETE) the call carries.
RequestDataAdd_send(request, resp) ==
    IF resp = "error"
    THEN [status |-> "err", result |-> None, call |-> Some("POST"),
          target |-> request.name]
    ELSE [status |-> "ok", result |-> Some([success |-> resp = "accepted"]),
          call |-> Some("POST"), target |-> request.name]

\* mutant: a Delete without a record id is a hard error
RequestDataDelete_send_strict(request, record_id, resp) ==
    IF record_id = None
    THEN [status |-> "err", result |-> None, call |-> None, target |-> ""]
    ELSE IF resp = "error"
    THEN [status |-> "err", result |-> None, call |-> Some("DELETE"),
          target |-> record_id[1]]
    ELSE [status |-> "ok", result |-> Some([success |-> resp = "accepted"]),
          call |-> Some("DELETE"), target |-> record_id[1]]

RequestDataDelete_send(request, record_id, resp) ==
    IF record_id = None
    THEN [status |-> "ok", result |-> None, call |-> None, target |-> ""]
    ELSE IF resp = "error"
    THEN [status |-> "err", result |-> None, call |-> Some("DELETE"),
          target |-> record_id[1]]
    ELSE [status |-> "ok", result |-> Some([success |-> resp = "accepted"]),
          call |-> Some("DELETE"), target |-> record_id[1]]

RequestData_send(request, records, resp) ==
    IF request.kind = "Add"
    THEN RequestDataAdd_send(request, resp)
    ELSE RequestDataDelete_send(request,
             find_record_id(records, request.name, request.record_type), resp)

\* mutant: only an answer with success=false counts as failed
is_failed_some_only(result) == result # None /\ ~result[1].success

\* update.rs:320: the request counts as failed unless the result is Some and
\* its success is true
is_failed(result) == ~(result # None /\ result[1].success)

\* mutant: an accepted Add is entered into the snapshot
records_after_send_add(records, request, result) ==
    IF request.kind = "Add" /\ result # None /\ result[1].success
    THEN Append(records, [id |-> "new",
                          name |-> IF request.name = "a." THEN "a" ELSE request.name,
                          record_type |-> request.record_type])
    ELSE records

\* mutant: a record whose DELETE was accepted is taken out of the snapshot
records_after_send_remove(records, request, result) ==
    IF request.kind = "Delete" /\ result # None /\ result[1].success
    THEN LET id == find_record_id(records, request.name, request.record_type)
         IN  SelectSeq(records, LAMBDA r : r.id # id[1])
    ELSE records

\* update.rs:292, 317: send borrows the snapshot immutably
records_after_send(records, request, result) == records

\* ---------------------------------------------------------------- driver
RECURSIVE LinesUpTo(_, _)
LinesUpTo(S, n) ==
    IF n = 0 THEN {<<>>}
    ELSE LET shorter == LinesUpTo(S, n - 1) IN
         shorter \cup {Append(ls, l) : ls \in {x \in shorter : Len(x) = n - 1}, l \in S}

\* the lines an input file is made of: empty, blank, send, a line of no
\* production, an add with the fields parse_add reads by position (domain, ttl,
\* one field it skips, record type, content) and a delete
InputLines ==
    {<<>>, <<WS>>, <<"send">>, <<"frobnicate", WS, "foo">>,
     <<"add", WS, "a.", WS, "300", WS, "IN", WS, "A", WS, "c">>,
     <<"delete", WS, "a.", WS, "A">>}

Inputs == {Join(ls) : ls \in LinesUpTo(InputLines, MaxLines) \ {<<>>}}

\* single command lines: the add lines of spec section 8 and variations of
\* them, and deletes of names with and without the trailing dot
Spaced(fields) ==
    [i \in 1..(2 * Len(fields) - 1) |-> IF i % 2 = 1 THEN fields[(i + 1) \div 2] ELSE WS]

CommandLines ==
    {Spaced(f) : f \in
        {<<"add", "example.com.", "300", "A", "203.0.113.5">>,
         <<"add", "example.com.", "300", "MX", "10", "mail.example.com.">>,
         <<"add", "a.", "300", "IN", "A", "c">>,
         <<"add", "a.", "soon", "IN", "A", "c">>,
         <<"delete", "a.", "A">>,
         <<"delete", "a", "A">>,
         <<"delete", "b.", "A">>,
         <<"delete", "a.", "MX">>,
         <<"delete", "c.", "A">>}}

\* a file of one command line, with or without a send line after it
CommandInputs ==
    CommandLines \cup {Join(<<l, <<"send">>>>) : l \in CommandLines}

\* the locals of execute at main.rs:56-59; the others do not exist yet
InitLocals ==
    /\ batch_count = 0
    /\ total = 0
    /\ total_failed = 0
    /\ parse_result = NewQueue
    /\ remaining = None
    /\ request_queue = <<>>
    /\ next_request = 1
    /\ current_records = <<>>
    /\ total_pages = 0
    /\ page = 0
    /\ subtotal = 0
    /\ subtotal_failed = 0
    /\ pc = "loop"
    /\ error = "none"
    /\ calls = <<>>
    /\ response = "none"
    /\ results = <<>>
    /\ fetched = <<>>
    /\ tallies = <<>>

Init ==
    /\ execute_input \in Inputs
    /\ input_text = Some(execute_input)
    /\ InitLocals

InitCommands ==
    /\ execute_input \in CommandInputs
    /\ input_text = Some(execute_input)
    /\ InitLocals

engine_vars == <<request_queue, next_request, current_records, total_pages, page,
                 subtotal, subtotal_failed, results, fetched>>

\* main.rs:60-70: one more batch is parsed from the text that is left
ParseBatch ==
    /\ pc = "loop"
    /\ UNCHANGED execute_input
    /\ input_text # None
    /\ LET r == parse_text(NewQueue, input_text[1]) IN
       /\ batch_count' = batch_count + 1
       /\ parse_result' = r.self
       /\ remaining' = r.remaining
       /\ pc' = CASE r.status = "ok" -> "parsed"
                  [] r.status = "err" -> "err"
                  [] OTHER -> "panic"
       /\ error' = IF r.status = "err" THEN "parse" ELSE error
    /\ UNCHANGED <<input_text, total, total_failed, calls, response, tallies>>
    /\ UNCHANGED engine_vars

\* mutant: process starts on a batch whether or not a send closed it
StartProcess_unguarded ==
    /\ pc = "parsed"
    /\ UNCHANGED execute_input
    /\ request_queue' = RequestQueue_from(parse_result)
    /\ current_records' = CFCurrentRecords_new
    /\ next_request' = 1
    /\ subtotal' = 0
    /\ subtotal_failed' = 0
    /\ results' = <<>>
    /\ fetched' = <<>>
    /\ total_pages' = 0
    /\ page' = 0
    /\ pc' = "first_page"
    /\ UNCHANGED <<input_text, batch_count, total, total_failed, parse_result,
                   remaining, error, calls, response, tallies>>

\* main.rs:71-72 and update.rs:310-311: a closed batch becomes a request queue
\* and process starts on it
StartProcess ==
    /\ pc = "parsed"
    /\ UNCHANGED execute_input
    /\ has_send(parse_result)
    /\ request_queue' = RequestQueue_from(parse_result)
    /\ current_records' = CFCurrentRecords_new
    /\ next_request' = 1
    /\ subtotal' = 0
    /\ subtotal_failed' = 0
    /\ results' = <<>>
    /\ fetched' = <<>>
    /\ total_pages' = 0
    /\ page' = 0
    /\ pc' = "first_page"
    /\ UNCHANGED <<input_text, batch_count, total, total_failed, parse_result,
                   remaining, error, calls, response, tallies>>

\* main.rs:80-83: a batch without send is dropped
SkipBatch ==
    /\ pc = "parsed"
    /\ UNCHANGED execute_input
    /\ ~has_send(parse_result)
    /\ input_text' = remaining
    /\ pc' = "loop"
    /\ UNCHANGED <<batch_count, total, total_failed, parse_result, remaining,
                   error, calls, response, tallies>>
    /\ UNCHANGED engine_vars

\* update.rs:192-195: the first page of CFCurrentRecords::update
FetchFirstPage ==
    /\ pc = "first_page"
    /\ UNCHANGED execute_input
    /\ calls' = Append(calls, Call("GET", 1, 0, ""))
    /\ \/ /\ response' = "error"
          /\ pc' = "err"
          /\ error' = "refresh"
          /\ UNCHANGED <<current_records, total_pages, page, fetched>>
       \/ \E list \in ListResponses :
             LET tp == get_total_pages(list) IN
             /\ response' = Answer(list.success)
             /\ IF ~tp.ok
                THEN /\ pc' = "err"
                     /\ error' = "refresh"
                     /\ UNCHANGED <<current_records, total_pages, page, fetched>>
                ELSE /\ current_records' = append(current_records, get_records(list))
                     /\ fetched' = Append(fetched, list.result)
                     /\ total_pages' = tp.val
                     /\ page' = IF tp.val > 1 THEN 2 ELSE page
                     /\ pc' = IF tp.val > 1 THEN "next_page" ELSE "apply"
                     /\ error' = error
    /\ UNCHANGED <<input_text, batch_count, total, total_failed, parse_result,
                   remaining, request_queue, next_request, subtotal,
                   subtotal_failed, results, tallies>>

\* update.rs:196-204: one turn of the loop over pages 2..=total_pages
FetchNextPage ==
    /\ pc = "next_page"
    /\ UNCHANGED execute_input
    /\ calls' = Append(calls, Call("GET", page, 0, ""))
    /\ \/ /\ response' = "error"
          /\ pc' = "err"
          /\ error' = "refresh"
          /\ UNCHANGED <<current_records, page, fetched>>
       \/ \E list \in ListResponses :
             /\ response' = Answer(list.success)
             /\ current_records' = append(current_records, get_records(list))
             /\ fetched' = Append(fetched, list.result)
             /\ page' = page + 1
             /\ pc' = IF page + 1 > total_pages THEN "apply" ELSE "next_page"
             /\ error' = error
    /\ UNCHANGED <<input_text, batch_count, total, total_failed, parse_result,
                   remaining, request_queue, next_request, total_pages, subtotal,
                   subtotal_failed, results, tallies>>

\* update.rs:316-328: one turn of the loop over the requests
SendRequest ==
    /\ pc = "apply"
    /\ UNCHANGED execute_input
    /\ next_request <= Len(request_queue)
    /\ \E resp \in UpdateOutcomes :
          LET r == RequestData_send(request_queue[next_request], current_records, resp) IN
          /\ calls' = IF r.call = None THEN calls
                       ELSE Append(calls, Call(r.call[1], 0, next_request, r.target))
          /\ response' = IF r.call = None THEN "none"
                          ELSE IF resp = "error" THEN "error"
                          ELSE Answer(resp = "accepted")
          /\ current_records' = records_after_send(current_records,
                                     request_queue[next_request], r.result)
          /\ IF r.status = "err"
             THEN /\ pc' = "err"
                  /\ error' = "request"
                  /\ UNCHANGED <<next_request, subtotal, subtotal_failed, results>>
             ELSE /\ subtotal' = subtotal + 1
                  /\ subtotal_failed' = IF is_failed(r.result)
                                        THEN subtotal_failed + 1
                                        ELSE subtotal_failed
                  /\ results' = Append(results, r.result)
                  /\ next_request' = next_request + 1
                  /\ UNCHANGED <<pc, error>>
    /\ UNCHANGED <<input_text, batch_count, total, total_failed, parse_result,
                   remaining, request_queue, total_pages, page, fetched, tallies>>

\* update.rs:329 and main.rs:73-83: process returns its tally and its locals
\* are dropped, execute adds the tally to the totals and goes on with the text
\* that is left
FinishBatch ==
    /\ pc = "apply"
    /\ UNCHANGED execute_input
    /\ next_request > Len(request_queue)
    /\ tallies' = Append(tallies, [batch |-> batch_count,
                                   processed |-> subtotal,
                                   failed |-> subtotal_failed,
                                   requests |-> request_queue,
                                   results |-> results])
    /\ total' = total + subtotal
    /\ total_failed' = total_failed + total_failed
    /\ input_text' = remaining
    /\ pc' = "loop"
    /\ request_queue' = <<>>
    /\ current_records' = <<>>
    /\ next_request' = 1
    /\ subtotal' = 0
    /\ subtotal_failed' = 0
    /\ results' = <<>>
    /\ fetched' = <<>>
    /\ total_pages' = 0
    /\ page' = 0
    /\ response' = "none"
    /\ UNCHANGED <<batch_count, parse_result, remaining, error, calls>>

\* main.rs:60 and 85-89: nothing is left, execute returns Ok
Finish ==
    /\ pc = "loop"
    /\ UNCHANGED execute_input
    /\ input_text = None
    /\ pc' = "done"
    /\ UNCHANGED <<input_text, batch_count, total, total_failed, parse_result,
                   remaining, error, calls, response, tallies>>
    /\ UNCHANGED engine_vars

Next ==
    \/ ParseBatch
    \/ StartProcess
    \/ SkipBatch
    \/ FetchFirstPage
    \/ FetchNextPage
    \/ SendRequest
    \/ FinishBatch
    \/ Finish

Spec == Init /\ [][Next]_vars

\* main.rs:60-62: the step of ParseBatch as the loop head shows it: it can be
\* taken exactly when the loop condition holds, and it counts one more batch
ParseStep == pc = "loop" /\ input_text # None /\ batch_count' = batch_count + 1

\* execute runs sequentially and every provider call returns: a step that can
\* be taken is taken
SpecTerminates ==
    /\ Init /\ [][Next]_vars
    /\ WF_batch_count(ParseStep)
    /\ WF_vars(StartProcess \/ SkipBatch \/ FetchFirstPage \/ FetchNextPage
                \/ SendRequest \/ FinishBatch \/ Finish)

\* execute on the files of CommandInputs
SpecCommands == InitCommands /\ [][Next]_vars

\* ================================================================ claims
\* a batch has been parsed from input_text and execute has not yet moved on
InBatch == pc \notin {"loop", "done"}

InputOfBatch == input_text[1]
LinesOfBatch == Split(InputOfBatch)

LineParses(line) == parse_command(NewQueue, line).status = "ok"
IsSendLine(line) == ParseLine(line).rule = "send"
IsBadLine(line) == ~ParseLine(line).ok
CommandsOfLine(line) == parse_command(NewQueue, line).self.inner

RECURSIVE CommandsOfLines(_)
CommandsOfLines(lines) ==
    IF lines = <<>> THEN <<>>
    ELSE CommandsOfLine(Head(lines)) \o CommandsOfLines(Tail(lines))

HasSendLine(lines) == \E i \in 1..Len(lines) : IsSendLine(lines[i])
FirstSendLine(lines) ==
    CHOOSE i \in 1..Len(lines) :
        IsSendLine(lines[i]) /\ \A k \in 1..(i - 1) : ~IsSendLine(lines[k])

\* the text that follows line k and its separator, read off the text itself
SeparatorsBefore(text, i) == Cardinality({j \in 1..(i - 1) : text[j] = NL})
TextAfterLine(text, k) ==
    IF \E i \in 1..Len(text) : text[i] = NL /\ SeparatorsBefore(text, i) = k - 1
    THEN LET i == CHOOSE j \in 1..Len(text) :
                      text[j] = NL /\ SeparatorsBefore(text, j) = k - 1
         IN  SubSeq(text, i + 1, Len(text))
    ELSE <<>>

\* str::trim() leaves nothing
IsBlank(text) == \A i \in 1..Len(text) : text[i] \in {NL, WS}

TextOf(option) == IF option = None THEN <<>> ELSE option[1]

CallsOfBatch(b) == {i \in 1..Len(calls) : calls[i].batch = b}
UpdateCallsOfBatch(b) == {i \in CallsOfBatch(b) : calls[i].op # "GET"}

Matches(record, name, record_type) ==
    AppendDot(record.name) = name /\ record.record_type = record_type
NoMatch(records, name, record_type) ==
    \A i \in 1..Len(records) : ~Matches(records[i], name, record_type)

Succeeded(result) == result # None /\ result[1].success

RECURSIVE SumProcessed(_)
SumProcessed(ts) == IF ts = <<>> THEN 0 ELSE Head(ts).processed + SumProcessed(Tail(ts))
RECURSIVE SumFailed(_)
SumFailed(ts) == IF ts = <<>> THEN 0 ELSE Head(ts).failed + SumFailed(Tail(ts))

\* C1: a failing Add or Delete request (no decodable answer, or success=false)
\* never makes process or execute return an error: no run ends in an error
\* raised by a request.
C1_RequestFailureNeverPropagated == error # "request"

\* C2: when execute finishes, total and total_failed are the sums of the
\* processed and failed counts of the batches that were processed.
C2_GrandTotalsAreSums ==
    pc = "done" => /\ total = SumProcessed(tallies)
                   /\ total_failed = SumFailed(tallies)

\* the batch is being applied, or a request of it has just made process fail
Applying == pc = "apply" \/ (pc = "err" /\ error = "request")

SameTarget(a, b) == a.name = b.name /\ a.record_type = b.record_type

\* C3: within a batch the snapshot is fetched once, before any request is
\* applied, and no request of the batch changes it; a Delete that follows a
\* successful Add of the same (name, type) finds no id and sends no DELETE when
\* the snapshot held no such record.
C3_FetchedOnceBeforeRequests ==
    \A b \in 1..batch_count :
        /\ Cardinality({i \in CallsOfBatch(b) : calls[i].op = "GET" /\ calls[i].page = 1}) <= 1
        /\ \A i, j \in CallsOfBatch(b) :
              (calls[i].op = "GET" /\ calls[j].op # "GET") => i < j
        /\ UpdateCallsOfBatch(b) # {} =>
              \E i \in CallsOfBatch(b) : calls[i].op = "GET" /\ calls[i].page = 1

C3_DeleteAfterAddSkipped ==
    Applying =>
        \A i \in 1..Len(results) : \A j \in 1..(i - 1) :
            (/\ request_queue[i].kind = "Delete"
             /\ request_queue[j].kind = "Add"
             /\ SameTarget(request_queue[i], request_queue[j])
             /\ Succeeded(results[j])
             /\ NoMatch(current_records, request_queue[i].name,
                        request_queue[i].record_type))
            => /\ results[i] = None
               /\ \A c \in CallsOfBatch(batch_count) : calls[c].request # i

C3_SnapshotFrozen ==
    (pc = "apply" /\ pc' # "loop") => current_records' = current_records

C3_SnapshotNotUpdatedByBatch ==
    /\ [](C3_FetchedOnceBeforeRequests /\ C3_DeleteAfterAddSkipped)
    /\ [][C3_SnapshotFrozen]_vars

\* an Add was accepted and the Delete of the same record after it was skipped
C3_Witness ==
    /\ pc = "apply"
    /\ Len(results) >= 2
    /\ request_queue[1].kind = "Add"
    /\ request_queue[2].kind = "Delete"
    /\ SameTarget(request_queue[1], request_queue[2])
    /\ Succeeded(results[1])
    /\ results[2] = None
    /\ \E c \in CallsOfBatch(batch_count) : calls[c].op = "POST"
    /\ \A c \in CallsOfBatch(batch_count) : calls[c].op # "DELETE"

NotFoundDelete(request) ==
    /\ request.kind = "Delete"
    /\ NoMatch(current_records, request.name, request.record_type)

\* C4: a Delete with no match in the snapshot issues no call, still counts as
\* processed, is no error, and the loop goes on with the next request.
C4_NotFoundStep ==
    (/\ pc = "apply"
     /\ next_request <= Len(request_queue)
     /\ NotFoundDelete(request_queue[next_request]))
    => /\ calls' = calls
       /\ subtotal' = subtotal + 1
       /\ results' = Append(results, None)
       /\ pc' = "apply"
       /\ error' = error
       /\ next_request' = next_request + 1
       /\ request_queue' = request_queue

C4_NotFoundDeleteSkipped == [][C4_NotFoundStep]_vars

\* a Delete was skipped as not found and the request after it was applied
C4_Witness ==
    /\ pc = "apply"
    /\ \E i \in 1..(Len(results) - 1) :
          /\ NotFoundDelete(request_queue[i])
          /\ results[i] = None
          /\ \A c \in CallsOfBatch(batch_count) : calls[c].request # i
          /\ \E c \in CallsOfBatch(batch_count) : calls[c].request = i + 1
    /\ subtotal = Len(results)

NotSucceeded(rs) == Cardinality({i \in 1..Len(rs) : ~Succeeded(rs[i])})

\* C5: a tally (processed, failed) returned for a queue of n requests has
\* processed = n and failed = the number of requests without a success=true
\* answer, a skipped Delete included; 0 <= failed <= processed.
C5_TallyCountsRequests ==
    /\ \A t \in 1..Len(tallies) :
          /\ tallies[t].processed = Len(tallies[t].requests)
          /\ Len(tallies[t].results) = Len(tallies[t].requests)
          /\ tallies[t].failed = NotSucceeded(tallies[t].results)
          /\ 0 <= tallies[t].failed
          /\ tallies[t].failed <= tallies[t].processed
    /\ pc = "apply" => /\ subtotal = Len(results)
                       /\ subtotal_failed = NotSucceeded(results)
                       /\ subtotal_failed <= subtotal

\* one accepted Add and one Delete of a record that is not there: (2, 1)
C5_Witness ==
    \E t \in 1..Len(tallies) :
        /\ Len(tallies[t].requests) = 2
        /\ tallies[t].requests[1].kind = "Add"
        /\ tallies[t].requests[2].kind = "Delete"
        /\ tallies[t].results = <<Some([success |-> TRUE]), None>>
        /\ tallies[t].processed = 2
        /\ tallies[t].failed = 1

\* the last call was the first page of the refresh and it failed
FirstPageFailed ==
    /\ calls # <<>>
    /\ calls[Len(calls)].op = "GET"
    /\ calls[Len(calls)].page = 1
    /\ response \in {"error", "false"}

\* C6: when the first page of the refresh fails (no answer, or success=false)
\* process fails before any Add or Delete of the batch is sent and execute
\* returns Err: nothing more is parsed or processed.
C6_RefreshFailureAborts ==
    /\ FirstPageFailed =>
          /\ pc = "err"
          /\ error = "refresh"
          /\ results = <<>>
          /\ UpdateCallsOfBatch(batch_count) = {}
          /\ \A t \in 1..Len(tallies) : tallies[t].batch # batch_count
    /\ error = "refresh" => pc = "err" /\ UpdateCallsOfBatch(batch_count) = {}
    /\ pc = "err" => ~ENABLED Next

\* the refresh failed with requests waiting and a later batch in the text
C6_Witness ==
    /\ FirstPageFailed
    /\ response = "false"
    /\ request_queue # <<>>
    /\ remaining # None
    /\ pc = "err"

AllLinesParse(lines) == \A i \in 1..Len(lines) : LineParses(lines[i])
CountSend(commands) == Cardinality({i \in 1..Len(commands) : commands[i] = Send})

\* C7: when every line parses and the first send is on line k, the batch holds
\* exactly the commands of lines 1..k in order, ends with its only Send, is
\* closed, and remaining is exactly the text after line k.
C7_BatchEndsAtFirstSend ==
    (InBatch /\ AllLinesParse(LinesOfBatch) /\ HasSendLine(LinesOfBatch)) =>
        LET k == FirstSendLine(LinesOfBatch) IN
        /\ error # "parse"
        /\ pc # "panic"
        /\ has_send(parse_result)
        /\ parse_result.inner = CommandsOfLines(SubSeq(LinesOfBatch, 1, k))
        /\ parse_result.inner[Len(parse_result.inner)] = Send
        /\ CountSend(parse_result.inner) = 1
        /\ TextOf(remaining) = TextAfterLine(InputOfBatch, k)

\* a closed batch of a command and its send, with text left after the send
C7_Witness ==
    /\ pc = "parsed"
    /\ AllLinesParse(LinesOfBatch)
    /\ has_send(parse_result)
    /\ Len(parse_result.inner) >= 2
    /\ FirstSendLine(LinesOfBatch) < Len(LinesOfBatch)
    /\ remaining # None

\* C8: when every line parses and none is a send, parse_text takes every
\* line, leaves send false and returns remaining = None.
C8_NoSendConsumesAll ==
    (InBatch /\ AllLinesParse(LinesOfBatch) /\ ~HasSendLine(LinesOfBatch)) =>
        /\ pc = "parsed"
        /\ ~has_send(parse_result)
        /\ parse_result.inner = CommandsOfLines(LinesOfBatch)
        /\ remaining = None

\* several lines with commands and no send
C8_Witness ==
    /\ pc = "parsed"
    /\ ~has_send(parse_result)
    /\ Len(LinesOfBatch) >= 2
    /\ Len(parse_result.inner) >= 2
    /\ remaining = None

\* the batch was closed by a send and parse_text returned Ok
ClosedBatch == InBatch /\ error # "parse" /\ pc # "panic" /\ has_send(parse_result)

\* C9 as stated: remaining is None whenever the text after the send line is
\* empty after trimming.
C9_BlankRemainderIsNone ==
    ClosedBatch =>
        (IsBlank(TextAfterLine(InputOfBatch, FirstSendLine(LinesOfBatch)))
            => remaining = None)

\* C9 amended: remaining is None exactly when the text after the send line
\* has length 0; a remainder that is blank but not empty is returned as Some
\* and is the next batch's input, which yields no command, no send and no call.
C9_EmptyRemainderIsNone ==
    /\ ClosedBatch =>
          (remaining = None
              <=> TextAfterLine(InputOfBatch, FirstSendLine(LinesOfBatch)) = <<>>)
    /\ (InBatch /\ IsBlank(InputOfBatch)) =>
          /\ pc = "parsed"
          /\ parse_result = NewQueue
          /\ remaining = None
          /\ CallsOfBatch(batch_count) = {}

\* a further batch was started on a remainder of blanks only
C9_Witness ==
    /\ pc = "parsed"
    /\ batch_count = 2
    /\ Len(tallies) = 1
    /\ IsBlank(InputOfBatch)
    /\ InputOfBatch # <<>>

BadAtOrBeforeFirstSend(lines) ==
    \E i \in 1..Len(lines) :
        IsBadLine(lines[i]) /\ \A k \in 1..(i - 1) : ~IsSendLine(lines[k])

\* C10: a line of no production at or before the first send makes parse_text
\* fail; no request queue is built, no call is made for the batch, and
\* execute returns Err.
C10_BadLineAbortsBatch ==
    (InBatch /\ BadAtOrBeforeFirstSend(LinesOfBatch)) =>
        /\ pc = "err"
        /\ error = "parse"
        /\ request_queue = <<>>
        /\ CallsOfBatch(batch_count) = {}
        /\ \A t \in 1..Len(tallies) : tallies[t].batch # batch_count
        /\ ~ENABLED Next

\* the parse failed on a bad line that follows a well-formed command
C10_Witness ==
    /\ pc = "err"
    /\ error = "parse"
    /\ parse_result.inner # <<>>
    /\ BadAtOrBeforeFirstSend(LinesOfBatch)

\* the fields after the keyword of the first line of the batch's input
FirstLineFields == Fields(LinesOfBatch[1])
FirstLineIsAdd ==
    /\ FirstLineFields # <<>>
    /\ FirstLineFields[1] = "add"
    /\ ParseLine(LinesOfBatch[1]).ok
AddFields == Tail(FirstLineFields)

\* C11: for an add line `domain ttl record_type [priority] content` the Add
\* has record_type = the field right after ttl, content = the last field, and
\* priority = None when one field follows the record type, Some(that field)
\* when two follow it.
C11_AddFieldsByCount ==
    (/\ InBatch
     /\ FirstLineIsAdd
     /\ IsNumeric(AddFields[2])
     /\ Len(AddFields) = 5 => IsNumeric(AddFields[4]))
    => /\ pc # "panic"
       /\ error # "parse"
       /\ parse_result.inner # <<>>
       /\ parse_result.inner[1] =
             Update([kind |-> "Add",
                     domain |-> AddFields[1],
                     ttl |-> NumValue[AddFields[2]],
                     record_type |-> AddFields[3],
                     priority |-> IF Len(AddFields) = 4 THEN None
                                  ELSE Some(NumValue[AddFields[4]]),
                     content |-> AddFields[Len(AddFields)]])

LastCallIsPage == calls # <<>> /\ calls[Len(calls)].op = "GET"

\* C12: the refresh fails whenever a page it fetched, the first or a later
\* one, reports success=false.
C12_UnsuccessfulPageFailsRefresh ==
    (LastCallIsPage /\ response = "false") => (pc = "err" /\ error = "refresh")

GetsOfBatch(b) == SelectSeq(calls, LAMBDA c : c.batch = b /\ c.op = "GET")

RECURSIVE Flatten(_)
Flatten(pages) == IF pages = <<>> THEN <<>> ELSE Head(pages) \o Flatten(Tail(pages))

PagesToFetch == IF total_pages > 1 THEN total_pages ELSE 1

\* C13: a refresh requests page 1, then pages 2..total_pages once each in
\* increasing order, total_pages being what page 1 reported; when it is done
\* the snapshot is the records of pages 1..total_pages in page order, and for
\* total_pages 0 or 1 one page was requested.
C13_PagesInOrder ==
    /\ \A b \in 1..batch_count :
          \A i \in 1..Len(GetsOfBatch(b)) : GetsOfBatch(b)[i].page = i
    /\ pc = "next_page" =>
          /\ Len(GetsOfBatch(batch_count)) = page - 1
          /\ page <= total_pages
          /\ current_records = Flatten(fetched)
    /\ Applying =>
          /\ Len(GetsOfBatch(batch_count)) = PagesToFetch
          /\ Len(fetched) = PagesToFetch
          /\ current_records = Flatten(fetched)

\* two pages with different, non-empty record lists were fetched
C13_Witness ==
    /\ pc = "apply"
    /\ total_pages = 2
    /\ Len(fetched) = 2
    /\ fetched[1] # <<>>
    /\ fetched[2] # <<>>
    /\ fetched[1] # fetched[2]
    /\ current_records = fetched[1] \o fetched[2]

\* process is running on the batch, or has just failed on it
Processing ==
    \/ pc \in {"first_page", "next_page", "apply"}
    \/ pc = "err" /\ error \in {"refresh", "request"}

UpdatesOf(commands) == SelectSeq(commands, LAMBDA c : c.cmd = "Update")
UpdateCalls(b) == SelectSeq(calls, LAMBDA c : c.batch = b /\ c.op # "GET")

\* C14: the request queue holds one request per Update command of the batch,
\* in the same order, the Send dropped; the calls for the requests are issued
\* in that order, one at a time: a call is issued only when every request
\* before it has its outcome.
C14_RequestsInBatchOrder ==
    /\ Processing =>
          /\ Len(request_queue) = Len(UpdatesOf(parse_result.inner))
          /\ Len(request_queue) = Len(parse_result.inner) - 1
          /\ \A i \in 1..Len(request_queue) :
                /\ request_queue[i].kind = UpdatesOf(parse_result.inner)[i].action.kind
                /\ request_queue[i].kind = parse_result.inner[i].action.kind
                /\ request_queue[i].name = parse_result.inner[i].action.domain
          /\ Len(results) = next_request - 1
          /\ \A i \in 1..Len(UpdateCalls(batch_count)) :
                LET c == UpdateCalls(batch_count)[i] IN
                /\ c.request \in 1..Len(request_queue)
                /\ c.request <= next_request
                /\ c.request = next_request => (pc = "err" /\ i = Len(UpdateCalls(batch_count)))
                /\ c.op = IF request_queue[c.request].kind = "Add" THEN "POST" ELSE "DELETE"
    /\ \A b \in 1..batch_count :
          \A i, j \in 1..Len(UpdateCalls(b)) :
              i < j => UpdateCalls(b)[i].request < UpdateCalls(b)[j].request

\* an Add and then a Delete were sent, in the order of their lines
C14_Witness ==
    /\ pc = "apply"
    /\ Len(parse_result.inner) = 3
    /\ request_queue[1].kind = "Add"
    /\ request_queue[2].kind = "Delete"
    /\ Len(results) = 2
    /\ Len(UpdateCalls(batch_count)) = 2
    /\ UpdateCalls(batch_count)[1].op = "POST"
    /\ UpdateCalls(batch_count)[2].op = "DELETE"

Ids(records) == {records[i].id : i \in 1..Len(records)}
FirstPageGets(b) == {i \in CallsOfBatch(b) : calls[i].op = "GET" /\ calls[i].page = 1}

\* C15: batches are processed one at a time in file order, each with its own
\* fresh snapshot: the calls are grouped by batch in batch order, every batch
\* that was processed has exactly one refresh, whose pages all precede the
\* Add/Delete calls of the batch, a refresh starts only when every request of
\* the batches before it has its outcome, and a DELETE of a batch carries the
\* id of a record fetched by the refresh of that same batch.
C15_OneBatchAtATimeFreshSnapshot ==
    /\ \A i, j \in 1..Len(calls) : i < j => calls[i].batch <= calls[j].batch
    /\ \A i \in 1..Len(calls) : calls[i].batch \in 1..batch_count
    /\ \A k \in 1..Len(tallies) :
          /\ Cardinality(FirstPageGets(tallies[k].batch)) = 1
          /\ Len(tallies[k].results) = Len(tallies[k].requests)
          /\ \A i \in CallsOfBatch(tallies[k].batch) :
                i < Len(calls) => calls[i + 1].batch = tallies[k].batch
                                  \/ calls[i + 1].batch > tallies[k].batch
          /\ k > 1 => tallies[k - 1].batch < tallies[k].batch
    /\ \A b \in 1..batch_count :
          \A i \in CallsOfBatch(b) :
              calls[i].op # "GET" =>
                  \E g \in FirstPageGets(b) :
                      /\ g < i
                      /\ \A j \in CallsOfBatch(b) : calls[j].op = "GET" => j < i
    /\ pc = "first_page" =>
          /\ current_records = <<>>
          /\ CallsOfBatch(batch_count) = {}
          /\ \A k \in 1..Len(tallies) : tallies[k].batch < batch_count
    /\ Processing => Len(fetched) <= Len(GetsOfBatch(batch_count))
    /\ Applying =>
          /\ Cardinality(FirstPageGets(batch_count)) = 1
          /\ Ids(current_records) = Ids(Flatten(fetched))
          /\ \A i \in CallsOfBatch(batch_count) :
                calls[i].op = "DELETE" => calls[i].target \in Ids(Flatten(fetched))

\* the second batch resolves a Delete from the snapshot it fetched itself,
\* which differs from the one fetched for the first batch
C15_Witness ==
    /\ pc = "apply"
    /\ batch_count = 2
    /\ Len(tallies) = 1
    /\ Cardinality(FirstPageGets(1)) = 1
    /\ Cardinality(FirstPageGets(2)) = 1
    /\ \E i \in CallsOfBatch(2) : calls[i].op = "DELETE" /\ calls[i].target = "id1"
    /\ Len(results) = 1

\* the names and record types a Delete of CommandLines asks for
AskedNames == {"a.", "a", "b.", "c."}
AskedTypes == {"A", "MX"}
Dotless == {"a"}

MatchingAt(records, name, record_type) ==
    {i \in 1..Len(records) : Matches(records[i], name, record_type)}
FirstMatchId(records, name, record_type) ==
    LET S == MatchingAt(records, name, record_type)
    IN  records[CHOOSE i \in S : \A j \in S : i <= j].id

\* C16: find_record_id gives None when the snapshot is empty or holds no
\* record whose name followed by "." is the requested name and whose type is
\* the requested type, and otherwise the id of the first such record in
\* snapshot order; a requested name without the trailing dot gets None. The
\* Delete that was just applied sent its DELETE for exactly that id, or none.
C16_FirstMatchingRecordId ==
    Applying =>
        /\ \A name \in AskedNames, record_type \in AskedTypes :
              LET id == find_record_id(current_records, name, record_type) IN
              /\ (current_records = <<>> \/ NoMatch(current_records, name, record_type))
                    => id = None
              /\ ~NoMatch(current_records, name, record_type)
                    => id = Some(FirstMatchId(current_records, name, record_type))
              /\ name \in Dotless => id = None
        /\ \A n \in 1..Len(request_queue) :
              LET request == request_queue[n]
                  sent == {i \in CallsOfBatch(batch_count) : calls[i].request = n}
              IN  request.kind = "Delete" =>
                      /\ request.name \in AskedNames
                      /\ request.record_type \in AskedTypes
                      /\ NoMatch(current_records, request.name, request.record_type)
                            => sent = {}
                      /\ \A i \in sent :
                            /\ calls[i].op = "DELETE"
                            /\ calls[i].target =
                                 FirstMatchId(current_records, request.name, request.record_type)
                      /\ (n < next_request
                          /\ ~NoMatch(current_records, request.name, request.record_type))
                            => sent # {}

\* a Delete of "a." type A against a snapshot with two such records
C16_Witness ==
    /\ pc = "apply"
    /\ Len(request_queue) = 1
    /\ request_queue[1].kind = "Delete"
    /\ Cardinality(MatchingAt(current_records, request_queue[1].name,
                              request_queue[1].record_type)) >= 2
    /\ Len(results) = 1
    /\ \E i \in CallsOfBatch(batch_count) :
          calls[i].op = "DELETE" /\ calls[i].target = "id1"

\* Add and Delete actions to translate, with and without a priority
AddActions ==
    [kind : {"Add"}, domain : {"a.", "example.com."}, ttl : {0, 300},
     record_type : {"A", "MX"}, priority : {None, Some(10)},
     content : {"c", "mail.example.com."}]
DeleteActions ==
    [kind : {"Delete"}, domain : {"a.", "a"}, record_type : {"A", "MX"}]

\* the action read back from a request
ActionOfRequest(request) ==
    IF request.kind = "Add"
    THEN [kind |-> "Add", domain |-> request.name, ttl |-> request.ttl,
          record_type |-> request.record_type, priority |-> request.priority,
          content |-> request.content]
    ELSE [kind |-> "Delete", domain |-> request.name,
          record_type |-> request.record_type]

\* C17: an Add action translates to an add request with name = domain and the
\* same ttl, record_type, priority and content, proxied false; a Delete action
\* translates to a delete request of name = domain and record_type only; the
\* action can be read back unchanged from the request, for the actions above
\* and for every request of the queue built from a parsed batch.
C17_TranslationPreservesFields ==
    /\ \A a \in AddActions :
          LET r == RequestDataAdd_from(a) IN
          /\ DOMAIN r = {"kind", "name", "ttl", "record_type", "priority",
                         "content", "proxied"}
          /\ r.name = a.domain
          /\ r.ttl = a.ttl
          /\ r.record_type = a.record_type
          /\ r.priority = a.priority
          /\ r.content = a.content
          /\ r.proxied = FALSE
          /\ ActionOfRequest(r) = a
    /\ \A d \in DeleteActions :
          LET r == RequestDataDelete_from(d) IN
          /\ DOMAIN r = {"kind", "name", "record_type"}
          /\ r.name = d.domain
          /\ r.record_type = d.record_type
          /\ ActionOfRequest(r) = d
    /\ Processing =>
          \A i \in 1..Len(request_queue) :
              /\ i <= Len(UpdatesOf(parse_result.inner))
              /\ ActionOfRequest(request_queue[i]) = UpdatesOf(parse_result.inner)[i].action
              /\ request_queue[i].kind = "Add" => request_queue[i].proxied = FALSE

\* the queue of a parsed batch holds the translation of an Add and of a Delete
C17_Witness ==
    /\ pc = "first_page"
    /\ Len(request_queue) = 2
    /\ parse_result.inner[1].action.kind = "Delete"
    /\ parse_result.inner[2].action.kind = "Add"
    /\ request_queue[1] = [kind |-> "Delete", name |-> "a.", record_type |-> "A"]
    /\ request_queue[2] = [kind |-> "Add", name |-> "a.", ttl |-> 300,
                           record_type |-> "A", priority |-> None,
                           content |-> "c", proxied |-> FALSE]

\* the batch just parsed ran to the end of the input without a send
OpenBatch ==
    /\ batch_count >= 1
    /\ error # "parse"
    /\ pc # "panic"
    /\ ~parse_result.send

\* C18: a batch that reaches the end of the input without a send is never
\* applied: no refresh and no Add/Delete call is made for it, no request queue
\* is built, its commands go nowhere, and the step that passes over it leaves
\* the calls and both grand totals as they were.
C18_OpenBatchNoTrace ==
    OpenBatch =>
        /\ pc \in {"parsed", "loop", "done"}
        /\ remaining = None
        /\ CallsOfBatch(batch_count) = {}
        /\ \A k \in 1..Len(tallies) : tallies[k].batch # batch_count
        /\ request_queue = <<>>
        /\ total = SumProcessed(tallies)
        /\ pc # "parsed" => input_text = None

C18_OpenBatchStep ==
    (pc = "parsed" /\ ~parse_result.send) =>
        /\ pc' = "loop"
        /\ input_text' = None
        /\ calls' = calls
        /\ tallies' = tallies
        /\ total' = total
        /\ total_failed' = total_failed
        /\ request_queue' = <<>>

C18_OpenBatchNeverApplied == []C18_OpenBatchNoTrace /\ [][C18_OpenBatchStep]_vars

\* a batch was applied, the commands after its send were parsed and dropped
C18_Witness ==
    /\ pc = "done"
    /\ batch_count = 2
    /\ ~parse_result.send
    /\ Len(UpdatesOf(parse_result.inner)) = 1
    /\ Len(tallies) = 1
    /\ CallsOfBatch(1) # {}
    /\ CallsOfBatch(2) = {}

CallsOfRequest(b, n) == {i \in CallsOfBatch(b) : calls[i].request = n}

\* request n of the running batch has been sent, or was being sent when the
\* run stopped
Attempted(n) == n < next_request \/ (pc = "err" /\ n = next_request)

\* C19: every DELETE of a batch carries the id of a record of the snapshot
\* fetched at the start of the batch that matches the name and type of its
\* request; two Deletes of the same (name, type) in one batch are both sent,
\* for the same id, the first match: the second is neither skipped nor sent
\* for another record of that name and type.
C19_RepeatedDeleteSameId ==
    /\ Applying =>
          /\ \A i \in CallsOfBatch(batch_count) :
                calls[i].op = "DELETE" =>
                    \E k \in 1..Len(Flatten(fetched)) :
                        /\ Flatten(fetched)[k].id = calls[i].target
                        /\ Matches(Flatten(fetched)[k],
                                   request_queue[calls[i].request].name,
                                   request_queue[calls[i].request].record_type)
          /\ \A m, n \in 1..Len(request_queue) :
                (/\ m < n
                 /\ Attempted(n)
                 /\ request_queue[m].kind = "Delete"
                 /\ request_queue[n].kind = "Delete"
                 /\ SameTarget(request_queue[m], request_queue[n])
                 /\ CallsOfRequest(batch_count, m) # {})
                => /\ CallsOfRequest(batch_count, n) # {}
                   /\ \A i \in CallsOfRequest(batch_count, m),
                         j \in CallsOfRequest(batch_count, n) :
                         calls[j].op = "DELETE" /\ calls[j].target = calls[i].target
    /\ \A k \in 1..Len(tallies) :
          \A i, j \in CallsOfBatch(tallies[k].batch) :
              (/\ calls[i].op = "DELETE"
               /\ calls[j].op = "DELETE"
               /\ SameTarget(tallies[k].requests[calls[i].request],
                             tallies[k].requests[calls[j].request]))
              => calls[i].target = calls[j].target

\* two Deletes of "a." type A, the first accepted, both sent for id1 although
\* the snapshot holds a second record of that name and type
C19_Witness ==
    /\ pc = "apply"
    /\ Len(results) = 2
    /\ Succeeded(results[1])
    /\ request_queue[1].kind = "Delete"
    /\ request_queue[2] = request_queue[1]
    /\ \E i \in CallsOfRequest(batch_count, 1), j \in CallsOfRequest(batch_count, 2) :
          calls[i].target = "id1" /\ calls[j].target = "id1"
    /\ \E k \in 1..Len(current_records) : current_records[k] = ra2

\* the lines up to the first send all parse, whatever follows the send
ParsesUpToFirstSend(lines) ==
    /\ HasSendLine(lines)
    /\ \A i \in 1..FirstSendLine(lines) : LineParses(lines[i])

\* every request of a processed batch has its outcome, and was sent unless it
\* is a Delete that found no record
FullyApplied(t) ==
    /\ Len(t.results) = Len(t.requests)
    /\ \A n \in 1..Len(t.requests) :
          IF t.requests[n].kind = "Add"
          THEN \E i \in CallsOfRequest(t.batch, n) : calls[i].op = "POST"
          ELSE t.results[n] # None =>
                   \E i \in CallsOfRequest(t.batch, n) : calls[i].op = "DELETE"

\* C20: parsing is lazy per batch and nothing is rolled back: a line that does
\* not parse and lies after a send does not fail the batch that send closes,
\* and when a parse error stops the run every earlier batch was closed and
\* fully processed, its calls made and left as they are, and nothing more is
\* done.
C20_LazyParseNoRollback ==
    /\ (InBatch /\ ParsesUpToFirstSend(LinesOfBatch)) => error # "parse"
    /\ error = "parse" =>
          /\ pc = "err"
          /\ ~ParsesUpToFirstSend(LinesOfBatch)
          /\ Len(tallies) = batch_count - 1
          /\ \A k \in 1..Len(tallies) :
                /\ tallies[k].batch = k
                /\ FullyApplied(tallies[k])
                /\ Cardinality(FirstPageGets(k)) = 1
          /\ \A i \in 1..Len(calls) : calls[i].batch < batch_count
          /\ total = SumProcessed(tallies)
          /\ ~ENABLED Next

\* the run stops on a line after a send; the Add before that send was sent and
\* accepted
C20_Witness ==
    /\ pc = "err"
    /\ error = "parse"
    /\ batch_count = 2
    /\ Len(tallies[1].requests) = 1
    /\ tallies[1].requests[1].kind = "Add"
    /\ Succeeded(tallies[1].results[1])
    /\ \E i \in CallsOfRequest(1, 1) : calls[i].op = "POST"
    /\ total = 1

NumLines(text) == Len(Split(text))
LinesLeft(option) == IF option = None THEN 0 ELSE NumLines(option[1])

\* execute has returned, Ok or Err
Terminated == pc \in {"done", "err"}

\* C21: the loop of execute terminates for every finite input when every
\* provider call returns: each parse_text takes at least one line, so what
\* remains has strictly fewer lines than the text it was given, the batches
\* counted plus the lines still to read never exceed the lines of the input,
\* and the run ends with nothing remaining or with an error.
C21_FewerLinesEachBatch ==
    /\ InBatch => LinesLeft(remaining) < LinesLeft(input_text)
    /\ batch_count <= NumLines(execute_input)
    /\ pc = "loop" => batch_count + LinesLeft(input_text) <= NumLines(execute_input)
    /\ InBatch => batch_count + LinesLeft(remaining) <= NumLines(execute_input)
    /\ pc = "done" => input_text = None /\ remaining = None
    /\ pc = "err" => error # "none"

C21_ExecuteTerminates == []C21_FewerLinesEachBatch /\ <>Terminated

\* the run ended after as many batches as the input has lines, each of one line
C21_Witness ==
    /\ pc = "done"
    /\ batch_count = MaxLines
    /\ NumLines(execute_input) = MaxLines
    /\ Len(tallies) = MaxLines - 1
    /\ input_text = None

====
